---------------------------- MODULE Spec2Model ----------------------------
(***************************************************************************)
(* A model of jrnl (src/jrnl/jrnl.py): main() resolves the date specifiers *)
(* of one invocation, openEntry() opens the journal entry of each resolved *)
(* date in an editor, and writeTimestamp() stamps the entry beforehand.    *)
(*                                                                         *)
(* Text (file contents, file names, messages) is a sequence of one-        *)
(* character strings, so that "in", endswith and strftime are computed on  *)
(* characters.  A datetime is a record [ord, hour, minute]: ord is the     *)
(* proleptic Gregorian ordinal of its day (datetime.toordinal()).          *)
(***************************************************************************)
EXTENDS Integers, Sequences, FiniteSets, TLC

VARIABLES
    pc,          \* where main() stands
    now,         \* the wall clock: what datetime.datetime.today() returns
    todayDefault,\* writeTimestamp's default todayDatetime, evaluated at def time
    runtimeArgs, \* runoptions.parseRuntimeArguments(): dates, timestamp, no_timestamp
    configDict,  \* runoptions.getConfig(): NoConfig until read, or if there is none
    editorName,  \* the editor main() settled on
    rootExists,  \* os.path.isdir(configDict["journal_path"])
    fs,          \* below the journal root: [dirs: year directories, files: path -> text]
    dates,       \* main()'s list of resolved datetimes
    routes,      \* per specifier handled: how it was resolved
    writetimestamp,
    readmode,
    idx,         \* position of the for loop of line 80 in dates
    editors,     \* running editor processes: the entry paths they were started on
    launched,    \* every Popen so far, in order: [editor, path]
    stderr,      \* lines printed to the error stream
    exitCode,    \* <<the process's exit status>>, NoExit while it runs
    stampLog,    \* every writeTimestamp call made by openEntry: what it appended
    fs0,         \* fs as it was when the invocation started
    entry,       \* the entry file of the writeTimestamp harness: [exists, text]
    calls        \* the harness's calls so far: [today, before, after]

mainVars == <<pc, now, todayDefault, runtimeArgs, configDict, editorName,
              rootExists, fs, dates, routes, writetimestamp, readmode, idx,
              editors, launched, stderr, exitCode, stampLog, fs0>>
stampVars == <<entry, calls>>
vars == <<mainVars, stampVars>>

---------------------------------------------------------------------------
(* Bounds of the model. *)

\* the most date specifiers on one command line
MaxDates == 2
\* the most pieces an initial entry text of the harness is put together from
MaxPieces == 3
\* the most writeTimestamp calls the harness makes on one file
MaxCalls == 3

---------------------------------------------------------------------------
(* Text. *)

NL == "\n"

DigitChars == <<"0", "1", "2", "3", "4", "5", "6", "7", "8", "9">>

RECURSIVE Dec(_)
\* str(n) for n >= 0
Dec(n) == IF n < 10 THEN <<DigitChars[n + 1]>>
          ELSE Dec(n \div 10) \o <<DigitChars[(n % 10) + 1]>>

RECURSIVE ZeroPad(_, _)
\* the zero padding of strftime's %Y, %m, %d, %H, %M
ZeroPad(s, width) == IF Len(s) >= width THEN s ELSE ZeroPad(<<"0">> \o s, width)

\* Python's  sub in text
Contains(text, sub) ==
    \E i \in 0..(Len(text) - Len(sub)) : SubSeq(text, i + 1, i + Len(sub)) = sub

\* Python's  text.endswith(suffix)
EndsWith(text, suffix) ==
    /\ Len(text) >= Len(suffix)
    /\ SubSeq(text, Len(text) - Len(suffix) + 1, Len(text)) = suffix

\* Python's  flag * s  for a bool flag
Times(flag, s) == IF flag THEN s ELSE <<>>

RECURSIVE SplitLines(_)
\* text.split("\n")
SplitLines(text) ==
    IF \A i \in 1..Len(text) : text[i] # NL THEN <<text>>
    ELSE LET k == CHOOSE i \in 1..Len(text) :
                    text[i] = NL /\ \A j \in 1..(i - 1) : text[j] # NL
         IN  <<SubSeq(text, 1, k - 1)>> \o SplitLines(SubSeq(text, k + 1, Len(text)))

\* how many lines of text are exactly line
CountLines(text, line) ==
    LET ls == SplitLines(text) IN Cardinality({i \in 1..Len(ls) : ls[i] = line})

---------------------------------------------------------------------------
(* Dates: datetime's calendar, as far as strftime and timedelta use it. *)

\* datetime.date.min.toordinal() and datetime.date.max.toordinal(): adding a
\* timedelta that leaves this range raises OverflowError
MinOrdinal == 1
MaxOrdinal == 3652059

DaysBeforeMonth == <<0, 31, 59, 90, 120, 151, 181, 212, 243, 273, 304, 334>>
DaysInMonth == <<31, 28, 31, 30, 31, 30, 31, 31, 30, 31, 30, 31>>

\* datetime's ordinal -> (year, month, day)
Ord2Ymd(ord) ==
    LET n0 == ord - 1
        n400 == n0 \div 146097
        r400 == n0 % 146097
        n100 == r400 \div 36524
        r100 == r400 % 36524
        n4 == r100 \div 1461
        r4 == r100 % 1461
        n1 == r4 \div 365
        n == r4 % 365
        year == n400 * 400 + 1 + n100 * 100 + n4 * 4 + n1
        leap == n1 = 3 /\ (n4 # 24 \/ n100 = 3)
        m0 == (n + 50) \div 32
        p0 == DaysBeforeMonth[m0] + (IF m0 > 2 /\ leap THEN 1 ELSE 0)
        month == IF p0 > n THEN m0 - 1 ELSE m0
        preceding == IF p0 > n
                     THEN p0 - (DaysInMonth[month]
                                + (IF month = 2 /\ leap THEN 1 ELSE 0))
                     ELSE p0
    IN  IF n1 = 4 \/ n100 = 4
        THEN [year |-> year - 1, month |-> 12, day |-> 31]
        ELSE [year |-> year, month |-> month, day |-> n - preceding + 1]

\* dt.strftime('%Y-%m-%d')
FormatDate(dt) ==
    LET ymd == Ord2Ymd(dt.ord)
    IN  ZeroPad(Dec(ymd.year), 4) \o <<"-">> \o ZeroPad(Dec(ymd.month), 2)
            \o <<"-">> \o ZeroPad(Dec(ymd.day), 2)

\* dt.strftime("%H:%M")
FormatTime(dt) == ZeroPad(Dec(dt.hour), 2) \o <<":">> \o ZeroPad(Dec(dt.minute), 2)

\* dt + datetime.timedelta(days=n), before the range check
AddDays(dt, n) == [dt EXCEPT !.ord = @ + n]

\* whether a datetime is one datetime can represent
InRange(dt) == dt.ord >= MinOrdinal /\ dt.ord <= MaxOrdinal

\* the clock, minutes later
AddMinutes(dt, m) ==
    LET t == dt.hour * 60 + dt.minute + m
    IN  [ord |-> dt.ord + (t \div 1440), hour |-> (t % 1440) \div 60,
         minute |-> t % 60]

---------------------------------------------------------------------------
(* writeTimestamp (lines 88-137). *)

\* line 122: the date is printed unless today's date is anywhere in the text
PrintDateAlways(entrytext, todayDate) == TRUE
PrintDateUnlessLine(entrytext, todayDate) == CountLines(entrytext, todayDate) = 0
PrintDate(entrytext, todayDate) == ~Contains(entrytext, todayDate)

\* line 128: a newline is printed unless the text ends with two of them
PrintNewLine(entrytext) == ~EndsWith(entrytext, <<NL, NL>>)

\* what writeTimestamp writes: to a new file (line 117), or appended to an
\* existing one (lines 135-137)
StampBlock(file, todayDatetime) ==
    LET todayDate == FormatDate(todayDatetime)
        todayTime == FormatTime(todayDatetime)
    IN  IF ~file.exists
        THEN todayDate \o <<NL>> \o todayTime \o <<NL>>
        ELSE Times(PrintNewLine(file.text), <<NL>>)
                \o Times(PrintDate(file.text, todayDate), todayDate \o <<NL>>)
                \o todayTime \o <<NL, NL>>

\* the entry file after writeTimestamp(entrypath, todayDatetime)
WriteTimestamp(file, todayDatetime) ==
    [exists |-> TRUE, text |-> file.text \o StampBlock(file, todayDatetime)]

\* a path that names no file
Absent == [exists |-> FALSE, text |-> <<>>]
File(text) == [exists |-> TRUE, text |-> text]

---------------------------------------------------------------------------
(* The harness of writeTimestamp: any entry file, then calls on it with an  *)
(* explicit todayDatetime.                                                  *)

\* 2024-01-01
Day1 == [ord |-> 738886, hour |-> 0, minute |-> 0]
At(day, h, m) == [ord |-> day.ord, hour |-> h, minute |-> m]

StampTimes == {At(Day1, 9, 0), At(Day1, 10, 30), At(AddDays(Day1, 1), 9, 0)}

\* what initial texts are put together from: a newline, other text, a day's
\* date, and a date cut short
TextPieces == {<<NL>>, <<"x">>, FormatDate(Day1),
               SubSeq(FormatDate(Day1), 1, 9)}

RECURSIVE TextsOf(_)
TextsOf(n) == IF n = 0 THEN {<<>>}
              ELSE TextsOf(n - 1)
                     \cup {t \o p : t \in TextsOf(n - 1), p \in TextPieces}

MainIdle ==
    /\ pc = "idle" /\ now = Day1 /\ todayDefault = Day1
    /\ runtimeArgs = <<>> /\ configDict = <<>> /\ editorName = <<>>
    /\ rootExists = TRUE /\ fs = <<>> /\ dates = <<>> /\ routes = <<>>
    /\ writetimestamp = FALSE /\ readmode = FALSE /\ idx = 0
    /\ editors = {} /\ launched = <<>> /\ stderr = <<>> /\ exitCode = <<>>
    /\ stampLog = <<>> /\ fs0 = <<>>

StampInit ==
    /\ MainIdle
    /\ entry \in {Absent} \cup {File(t) : t \in TextsOf(MaxPieces)}
    /\ calls = <<>>

CallWriteTimestamp ==
    /\ Len(calls) < MaxCalls
    /\ \E today \in StampTimes :
          /\ entry' = WriteTimestamp(entry, today)
          /\ calls' = Append(calls, [today |-> today, before |-> entry,
                                     after |-> entry'])
    /\ UNCHANGED mainVars

StampNext == CallWriteTimestamp

StampSpec == StampInit /\ [][StampNext]_vars

---------------------------------------------------------------------------
(* What the harness's calls wrote. *)

\* the text call c appended to the entry file
Appended(c) == SubSeq(c.after.text, Len(c.before.text) + 1, Len(c.after.text))

\* how many lines of what call c appended are the date line of day
DateLinesOf(c, day) == CountLines(Appended(c), FormatDate(day))

\* how many lines of what call c appended are its own time line
TimeLinesOf(c) == CountLines(Appended(c), FormatTime(c.today))

RECURSIVE DateLinesWritten(_, _)
\* the date lines of day written by the first n calls together
DateLinesWritten(n, day) ==
    IF n = 0 THEN 0 ELSE DateLinesWritten(n - 1, day) + DateLinesOf(calls[n], day)

SameDay(a, b) == a.ord = b.ord

RECURSIVE LeadingNewlines(_)
LeadingNewlines(s) ==
    IF s = <<>> \/ Head(s) # NL THEN 0 ELSE 1 + LeadingNewlines(Tail(s))

\* the file of call c up to the first line of the stamp block it appended
UpToStamp(c) ==
    SubSeq(c.after.text, 1, Len(c.before.text) + LeadingNewlines(Appended(c)))

\* C3: whatever the entry file was at first (absent, empty, any text) and
\* whatever calls of writeTimestamp were made on it, the calls have written at
\* most one date line per calendar date, and no call appends the date line of
\* a date the file already contains.
C3_AtMostOneDateLinePerDay ==
    /\ \A t \in StampTimes : DateLinesWritten(Len(calls), t) <= 1
    /\ \A i \in 1..Len(calls) :
          Contains(calls[i].before.text, FormatDate(calls[i].today))
              => DateLinesOf(calls[i], calls[i].today) = 0

\* three calls on one day, on a file that existed without that day's date:
\* one date line was written, by the first call
C3_Witness ==
    /\ Len(calls) = 3
    /\ calls[1].before.exists
    /\ SameDay(calls[1].today, calls[2].today)
    /\ SameDay(calls[2].today, calls[3].today)
    /\ DateLinesOf(calls[1], calls[1].today) = 1
    /\ DateLinesWritten(3, calls[1].today) = 1

\* C4: whenever writeTimestamp appends a stamp block to an entry file that
\* already exists, the file then has at least one empty line between the
\* text it had and the first line of the stamp block, whatever that text
\* ended in.  (Text of newlines only has nothing to be separated from.)
C4_BlankLineBeforeStamp ==
    \A i \in 1..Len(calls) :
        LET c == calls[i]
        IN  (c.before.exists /\ \E k \in 1..Len(c.before.text) : c.before.text[k] # NL)
                => EndsWith(UpToStamp(c), <<NL, NL>>)

\* C6 as stated: for any entry file, two calls of writeTimestamp within one
\* calendar date append exactly one date line between them and one time line
\* each.
C6_ExactlyOneDateLine ==
    \A i \in 1..(Len(calls) - 1) :
        SameDay(calls[i].today, calls[i + 1].today)
            => /\ DateLinesOf(calls[i], calls[i].today)
                    + DateLinesOf(calls[i + 1], calls[i].today) = 1
               /\ TimeLinesOf(calls[i]) = 1
               /\ TimeLinesOf(calls[i + 1]) = 1

\* C6 as amended: two calls of writeTimestamp within one calendar date append
\* one time line each, and between them exactly one date line if the file did
\* not contain that date before the first of them (an absent file contains
\* nothing), and none if it did.
C6_OneDateLineUnlessPresent ==
    \A i \in 1..(Len(calls) - 1) :
        SameDay(calls[i].today, calls[i + 1].today)
            => /\ DateLinesOf(calls[i], calls[i].today)
                    + DateLinesOf(calls[i + 1], calls[i].today)
                  = (IF Contains(calls[i].before.text, FormatDate(calls[i].today))
                     THEN 0 ELSE 1)
               /\ TimeLinesOf(calls[i]) = 1
               /\ TimeLinesOf(calls[i + 1]) = 1

\* two calls on one day, on a file that held the day's date inside a longer
\* line: no date line was appended, and two time lines were
C6_Witness ==
    /\ Len(calls) = 2
    /\ SameDay(calls[1].today, calls[2].today)
    /\ Contains(calls[1].before.text, FormatDate(calls[1].today))
    /\ CountLines(calls[1].before.text, FormatDate(calls[1].today)) = 0
    /\ DateLinesWritten(2, calls[1].today) = 0
    /\ TimeLinesOf(calls[1]) + TimeLinesOf(calls[2]) = 2

---------------------------------------------------------------------------
(* main (lines 14-85): its inputs. *)

\* getConfig() found no configuration: the empty dict
NoConfig == [editor |-> <<>>, write_timestamp |-> FALSE,
             hours_past_midnight_included_in_day |-> 0]
\* the exit status of a process that has not exited
NoExit == <<>>
\* the parser's answer to a string it finds no date in: it raises ParseError
ParseError == [ord |-> 0, hour |-> 0, minute |-> 0]

\* line 54: the largest integer taken as an offset in days
OffsetLimit == 1000000

\* A date specifier of the command line: whether int(datestring) succeeds and
\* with what value, and what dateutil.parser.parse(datestring, fuzzy=True)
\* makes of it (a datetime, or ParseError).
IntSpecifier(v, parsed) == [isInt |-> TRUE, val |-> v, parse |-> parsed]
TextSpecifier(parsed) == [isInt |-> FALSE, val |-> 0, parse |-> parsed]

Specifiers ==
    { IntSpecifier(0, ParseError),
      IntSpecifier(-1, ParseError),
      IntSpecifier(OffsetLimit, ParseError),
      IntSpecifier(OffsetLimit + 1, ParseError),
      IntSpecifier(-(OffsetLimit + 1), ParseError),
      TextSpecifier(AddDays(Day1, -1)),
      TextSpecifier(ParseError) }

RECURSIVE SeqsUpTo(_, _)
SeqsUpTo(S, n) == IF n = 0 THEN {<<>>}
                  ELSE SeqsUpTo(S, n - 1)
                         \cup {Append(q, x) : q \in SeqsUpTo(S, n - 1), x \in S}

RuntimeArguments ==
    [dates : SeqsUpTo(Specifiers, MaxDates), timestamp : BOOLEAN,
     no_timestamp : BOOLEAN]

Configs ==
    [editor : {<<"v", "i">>}, write_timestamp : BOOLEAN,
     hours_past_midnight_included_in_day : {4}]

\* the clock when the program starts: early morning or mid-morning of Day1
StartTimes == {At(Day1, 2, 30), At(Day1, 10, 30)}

\* how long an editor session may last, in minutes: a moment, or past midnight
SessionMinutes == {1, 1500}

---------------------------------------------------------------------------
(* openEntry's paths (lines 160-161) and the files below the journal root. *)

\* os.path.join(journalPath, str(datetimeobj.year)), relative to the root
YearDirPath(datetimeobj) == Dec(Ord2Ymd(datetimeobj.ord).year)

\* os.path.join(yearDirPath, datetimeobj.strftime('%Y-%m-%d') + '.txt')
EntryPath(datetimeobj) ==
    <<YearDirPath(datetimeobj),
      FormatDate(datetimeobj) \o <<".", "t", "x", "t">>>>

EmptyFs == [dirs |-> {}, files |-> <<>>]

\* os.path.exists(path) / os.path.isfile(path)
Exists(f, path) == path \in DOMAIN f.files

ReadFile(f, path) == IF Exists(f, path) THEN File(f.files[path]) ELSE Absent

\* the files of f with path holding text
WithFile(f, path, text) ==
    [f EXCEPT !.files = (path :> text) @@ f.files]

\* texts an entry may hold before the invocation
InitTexts == {<<"x", NL>>}

\* the journals an invocation may find: entries of Day1 and the day before,
\* each absent or holding one of InitTexts, in their year directories
InitFss ==
    LET days == {Day1, AddDays(Day1, -1)}
    IN  { [dirs |-> {YearDirPath(d) : d \in present},
           files |-> [p \in {EntryPath(d) : d \in present} |->
                        text[CHOOSE d \in present : EntryPath(d) = p]]] :
            present \in SUBSET days, text \in [days -> InitTexts] }

---------------------------------------------------------------------------
(* Date resolution (lines 43-70). *)

\* lines 50-55: an integer is an offset unless it is above the limit
IsOffsetAbs(offset) == offset <= OffsetLimit /\ offset >= -OffsetLimit
IsOffset(offset) == ~(offset > OffsetLimit)

\* lines 49-61 for one specifier, parse errors swallowed
ResolveOneLenient(datestring, today) ==
    IF datestring.isInt /\ IsOffset(datestring.val)
    THEN [route |-> "offset", date |-> AddDays(today, datestring.val),
          error |-> IF InRange(AddDays(today, datestring.val))
                    THEN "none" ELSE "OverflowError"]
    ELSE [route |-> "parser",
          date |-> IF datestring.parse = ParseError THEN today
                   ELSE datestring.parse,
          error |-> "none"]

\* lines 49-61 for one specifier: the offset added to today, or the parser's
\* date, or the exception that leaves main
ResolveOne(datestring, today) ==
    IF datestring.isInt /\ IsOffset(datestring.val)
    THEN [route |-> "offset", date |-> AddDays(today, datestring.val),
          error |-> IF InRange(AddDays(today, datestring.val))
                    THEN "none" ELSE "OverflowError"]
    ELSE [route |-> "parser", date |-> datestring.parse,
          error |-> IF datestring.parse = ParseError THEN "ParseError" ELSE "none"]

RECURSIVE ResolveFrom(_, _, _)
\* the loop of line 47 from specifier i on, after acc: it ends at the first
\* exception
ResolveFrom(acc, i, today) ==
    IF i > Len(runtimeArgs.dates) THEN acc
    ELSE LET r == ResolveOne(runtimeArgs.dates[i], today)
             next == [dates |-> IF r.error = "none" THEN Append(acc.dates, r.date)
                                ELSE acc.dates,
                      routes |-> Append(acc.routes, r.route),
                      error |-> r.error]
         IN  IF r.error = "none" THEN ResolveFrom(next, i + 1, today) ELSE next

\* lines 65-70: today, or the day before if the hour is early enough
ImplicitToday(today, hours) ==
    IF today.hour < hours THEN AddDays(today, -1) ELSE today

\* line 74-76
WriteTimestampFlag(args, config) ==
    args.timestamp \/ (config.write_timestamp /\ ~args.no_timestamp)

\* line 77
ReadModeNever(argDates) == FALSE
ReadMode(argDates) == argDates # <<>>

---------------------------------------------------------------------------
(* main and openEntry, step by step. *)

StampIdle == entry = Absent /\ calls = <<>>

\* The process starts: the module is loaded (writeTimestamp's default
\* argument is evaluated, line 88) and main is entered.
Init ==
    /\ StampIdle
    /\ pc = "config"
    /\ now \in StartTimes
    /\ todayDefault = now
    /\ runtimeArgs \in RuntimeArguments
    /\ configDict = NoConfig
    /\ editorName = <<>>
    /\ rootExists \in BOOLEAN
    /\ fs \in (IF rootExists THEN InitFss ELSE {EmptyFs})
    /\ fs0 = fs
    /\ dates = <<>> /\ routes = <<>>
    /\ writetimestamp = FALSE /\ readmode = FALSE
    /\ idx = 1
    /\ editors = {} /\ launched = <<>> /\ stderr = <<>>
    /\ exitCode = NoExit
    /\ stampLog = <<>>

\* sys.exit(code), or an uncaught exception (code 1)
ExitWith(code) == pc' = "exited" /\ exitCode' = <<code>>

\* lines 20-24
GetConfig ==
    /\ pc = "config"
    /\ \E c \in Configs \cup {NoConfig} :
          /\ configDict' = c
          /\ IF c = NoConfig
             THEN /\ stderr' = Append(stderr, <<"No config file found!">>)
                  /\ ExitWith(1)
             ELSE /\ pc' = "editor"
                  /\ UNCHANGED <<stderr, exitCode>>
    /\ UNCHANGED <<now, todayDefault, runtimeArgs, editorName, rootExists, fs,
                   dates, routes, writetimestamp, readmode, idx, editors,
                   launched, stampLog, fs0, stampVars>>

\* lines 27-33
ChooseEditor ==
    /\ pc = "editor"
    /\ \E configured \in BOOLEAN, sensible \in BOOLEAN :
          IF configured
          THEN /\ editorName' = configDict.editor
               /\ pc' = "root"
               /\ UNCHANGED <<stderr, exitCode>>
          ELSE IF sensible
          THEN /\ editorName' = <<"sensible-editor">>
               /\ pc' = "root"
               /\ UNCHANGED <<stderr, exitCode>>
          ELSE /\ stderr' = Append(stderr, configDict.editor \o <<" not available!">>)
               /\ ExitWith(1)
               /\ UNCHANGED editorName
    /\ UNCHANGED <<now, todayDefault, runtimeArgs, configDict, rootExists, fs,
                   dates, routes, writetimestamp, readmode, idx, editors,
                   launched, stampLog, fs0, stampVars>>

\* lines 36-40
EnsureRoot ==
    /\ pc = "root"
    /\ IF rootExists
       THEN pc' = "dates" /\ UNCHANGED <<rootExists, exitCode>>
       ELSE \E answer \in BOOLEAN :
               IF answer
               THEN rootExists' = TRUE /\ pc' = "dates" /\ UNCHANGED exitCode
               ELSE ExitWith(0) /\ UNCHANGED rootExists
    /\ UNCHANGED <<now, todayDefault, runtimeArgs, configDict, editorName, fs,
                   dates, routes, writetimestamp, readmode, idx, editors,
                   launched, stderr, stampLog, fs0, stampVars>>

\* lines 43-77: the dates are resolved, all of them before any entry is
\* opened, and the two modes are set
BuildDates ==
    /\ pc = "dates"
    /\ IF runtimeArgs.dates # <<>>
       THEN LET r == ResolveFrom([dates |-> <<>>, routes |-> <<>>,
                                  error |-> "none"], 1, now)
            IN  /\ dates' = r.dates
                /\ routes' = r.routes
                /\ IF r.error = "none"
                   THEN /\ pc' = "open"
                        /\ writetimestamp' = WriteTimestampFlag(runtimeArgs, configDict)
                        /\ readmode' = ReadMode(runtimeArgs.dates)
                        /\ UNCHANGED <<stderr, exitCode>>
                   ELSE /\ stderr' = Append(stderr, <<"Traceback", r.error>>)
                        /\ ExitWith(1)
                        /\ UNCHANGED <<writetimestamp, readmode>>
       ELSE /\ dates' = <<ImplicitToday(now,
                             configDict.hours_past_midnight_included_in_day)>>
            /\ pc' = "open"
            /\ writetimestamp' = WriteTimestampFlag(runtimeArgs, configDict)
            /\ readmode' = ReadMode(runtimeArgs.dates)
            /\ UNCHANGED <<routes, stderr, exitCode>>
    /\ UNCHANGED <<now, todayDefault, runtimeArgs, configDict, editorName,
                   rootExists, fs, idx, editors, launched, stampLog, fs0,
                   stampVars>>

\* line 164: in read mode only existing entries are opened
SkipEntryNever(inreadmode, exists) == FALSE
SkipEntry(inreadmode, exists) == inreadmode /\ ~exists

\* line 166: openEntry returns, and the loop of line 80 goes on
AfterNotFoundFatal(i) == [pc |-> "exited", idx |-> i, exitCode |-> <<1>>]
AfterNotFound(i) == [pc |-> "open", idx |-> i + 1, exitCode |-> NoExit]

\* line 174: writeTimestamp(entryPath) leaves todayDatetime to its default,
\* the datetime captured when the function was defined
DefaultTodayAtCall(captured, current) == current
DefaultToday(captured, current) == captured

\* line 177: wait() returns once the process has exited
PopenNoWait(running, proc) == TRUE
PopenWait(running, proc) == proc \notin running

\* the process openEntry started for dates[i]
EditorOf(i) == [i |-> i, path |-> EntryPath(dates[i])]

\* lines 80-82 and 159-177 up to Popen: the entry of dates[idx] is skipped, or
\* its year directory is made, it is stamped, and the editor is started on it
OpenEntry ==
    /\ pc = "open"
    /\ idx <= Len(dates)
    /\ LET datetimeobj == dates[idx]
           yearDirPath == YearDirPath(datetimeobj)
           entryPath == EntryPath(datetimeobj)
           withDir == [fs EXCEPT !.dirs = @ \cup {yearDirPath}]
           before == ReadFile(fs, entryPath)
           after == WriteTimestamp(before, DefaultToday(todayDefault, now))
       IN  IF SkipEntry(readmode, Exists(fs, entryPath))
           THEN /\ stderr' = Append(stderr, entryPath \o <<" does not exist!">>)
                /\ pc' = AfterNotFound(idx).pc
                /\ idx' = AfterNotFound(idx).idx
                /\ exitCode' = AfterNotFound(idx).exitCode
                /\ UNCHANGED <<fs, editors, launched, stampLog>>
           ELSE /\ IF writetimestamp
                   THEN /\ fs' = WithFile(withDir, entryPath, after.text)
                        /\ stampLog' = Append(stampLog,
                              [i |-> idx, path |-> entryPath, before |-> before,
                               after |-> after, at |-> now])
                   ELSE /\ fs' = withDir
                        /\ UNCHANGED stampLog
                /\ launched' = Append(launched,
                      [i |-> idx, editor |-> editorName, path |-> entryPath])
                /\ editors' = editors \cup {EditorOf(idx)}
                /\ pc' = "wait"
                /\ UNCHANGED <<idx, stderr, exitCode>>
    /\ UNCHANGED <<now, todayDefault, runtimeArgs, configDict, editorName,
                   rootExists, dates, routes, writetimestamp, readmode, fs0,
                   stampVars>>

\* what an editor session may leave of the file it was started on: the file
\* as it was, or saved with text added
EditorResults(file) == {file, File(file.text \o <<"y", NL>>)}

\* An editor process exits, some time after it was started: the user may
\* have saved the entry.
EditorExit ==
    /\ \E e \in editors, m \in SessionMinutes :
          /\ editors' = editors \ {e}
          /\ now' = AddMinutes(now, m)
          /\ \E result \in EditorResults(ReadFile(fs, e.path)) :
                fs' = IF result.exists THEN WithFile(fs, e.path, result.text) ELSE fs
    /\ UNCHANGED <<pc, todayDefault, runtimeArgs, configDict, editorName,
                   rootExists, dates, routes, writetimestamp, readmode, idx,
                   launched, stderr, exitCode, stampLog, fs0, stampVars>>

\* line 177: wait() returns, openEntry returns, and the loop of line 80 moves on
WaitReturn ==
    /\ pc = "wait"
    /\ PopenWait(editors, EditorOf(idx))
    /\ pc' = "open"
    /\ idx' = idx + 1
    /\ UNCHANGED <<now, todayDefault, runtimeArgs, configDict, editorName,
                   rootExists, fs, dates, routes, writetimestamp, readmode,
                   editors, launched, stderr, exitCode, stampLog, fs0, stampVars>>

\* line 85
Exit ==
    /\ pc = "open"
    /\ idx > Len(dates)
    /\ ExitWith(0)
    /\ UNCHANGED <<now, todayDefault, runtimeArgs, configDict, editorName,
                   rootExists, fs, dates, routes, writetimestamp, readmode, idx,
                   editors, launched, stderr, stampLog, fs0, stampVars>>

\* the steps of the program itself
MainStep ==
    \/ GetConfig
    \/ ChooseEditor
    \/ EnsureRoot
    \/ BuildDates
    \/ OpenEntry
    \/ WaitReturn
    \/ Exit

Next == MainStep \/ EditorExit

Spec == Init /\ [][Next]_vars

---------------------------------------------------------------------------
(* Properties of main and openEntry. *)

\* the message openEntry prints for a missing entry (line 165)
NotExistMessage(path) == path \o <<" does not exist!">>

\* openEntry is about to be called on dates[idx]
AtOpenEntry == pc = "open" /\ idx <= Len(dates)

\* C1: openEntry called in read mode for a date whose entry file does not
\* exist prints "<path> does not exist!" to the error stream and returns, and
\* does nothing else: no year directory and no file is made or changed,
\* writeTimestamp is not called, no editor is started.
C1_ReadModeMissingEntryOnlyReports ==
    [][(AtOpenEntry /\ readmode /\ ~Exists(fs, EntryPath(dates[idx])))
          => /\ stderr' = Append(stderr, NotExistMessage(EntryPath(dates[idx])))
             /\ fs' = fs
             /\ stampLog' = stampLog
             /\ launched' = launched
             /\ editors' = editors
             /\ pc' = "open" /\ idx' = idx + 1]_vars

\* openEntry has returned from a missing entry in read mode, the first of the
\* run, leaving the message and nothing else
C1_Witness ==
    /\ pc = "open" /\ readmode /\ idx = 2
    /\ ~Exists(fs, EntryPath(dates[1]))
    /\ stderr = <<NotExistMessage(EntryPath(dates[1]))>>
    /\ fs = fs0 /\ launched = <<>> /\ stampLog = <<>> /\ editors = {}

\* the run of the scenario: an empty journal root, the timestamp flag on, and
\* these date specifiers
Scenario(specifiers) ==
    /\ fs0 = EmptyFs
    /\ runtimeArgs.timestamp
    /\ runtimeArgs.dates = specifiers

SpecifierZero == IntSpecifier(0, ParseError)

\* date line and time line of the datetime, and nothing else
FreshStamp(dt) == FormatDate(dt) \o <<NL>> \o FormatTime(dt) \o <<NL>>

\* C2 as stated: a run with an existing but empty journal root, the single
\* date specifier "0" and the timestamp flag on creates
\* <root>/<year>/<today>.txt, which after the timestamp step holds exactly
\* today's date line and today's time line.
C2_SpecifierZeroCreatesEntry ==
    (Scenario(<<SpecifierZero>>) /\ (pc = "wait" \/ idx > 1))
        => /\ Exists(fs, EntryPath(todayDefault))
           /\ fs.files[EntryPath(todayDefault)] = FreshStamp(todayDefault)

\* C2 as amended: with the single specifier "0" the run is in read mode: it
\* reports "<path> does not exist!" and creates nothing.  The same run with no
\* date specifier creates <root>/<year>/<day>.txt for the day it resolves
\* (today, or the day before when the hour is below the configured one), and
\* after the timestamp step that file is the only one and holds exactly the
\* date line and the time line of the datetime captured at start.
C2_EntryCreatedOnlyWithoutSpecifier ==
    /\ (Scenario(<<SpecifierZero>>) /\ (pc = "wait" \/ idx > 1))
          => /\ fs = EmptyFs
             /\ launched = <<>>
             /\ stderr = <<NotExistMessage(EntryPath(todayDefault))>>
    /\ (Scenario(<<>>) /\ pc = "wait" /\ editors # {})
          => /\ dates = <<IF todayDefault.hour
                               < configDict.hours_past_midnight_included_in_day
                          THEN AddDays(todayDefault, -1) ELSE todayDefault>>
             /\ fs = [dirs |-> {YearDirPath(dates[1])},
                      files |-> (EntryPath(dates[1]) :> FreshStamp(todayDefault))]

\* the scenario's run with specifier "0" has ended, with status 0, the message
\* printed and the journal root still empty
C2_Witness ==
    /\ Scenario(<<SpecifierZero>>)
    /\ pc = "exited" /\ exitCode = <<0>> /\ idx = 2
    /\ fs = EmptyFs
    /\ Len(stderr) = 1

\* How the integer specifiers were resolved, offsets being the integers taken
\* as offsets: such a specifier is resolved as an offset exactly if it is one
\* of them, an offset resolves to the clock plus that many days, and any
\* other integer to what the parser makes of it.  (No step before line 58
\* moves the clock: it is still the clock of the start, todayDefault.)
IntegersResolvedBy(offsets) ==
    \A i \in 1..Len(routes) :
        LET s == runtimeArgs.dates[i]
        IN  s.isInt
              => /\ (routes[i] = "offset") <=> s.val \in offsets
                 /\ (routes[i] = "parser") <=> s.val \notin offsets
                 /\ (i <= Len(dates) /\ routes[i] = "offset")
                       => dates[i] = AddDays(todayDefault, s.val)
                 /\ (i <= Len(dates) /\ routes[i] = "parser")
                       => dates[i] = s.parse

\* the integers that specifiers of the model give
SpecifierValues == {s.val : s \in {t \in Specifiers : t.isInt}}

AbsAtMostLimit == {o \in SpecifierValues : o <= OffsetLimit /\ -o <= OffsetLimit}
AtMostLimit == {o \in SpecifierValues : o <= OffsetLimit}

\* C5 as stated: a specifier that parses as an integer o is resolved as a day
\* offset (current date-time + o days) if and only if |o| <= 1,000,000; with
\* |o| > 1,000,000, positive or negative, it is handed to the free-form parser.
C5_OffsetIffAbsWithinLimit == IntegersResolvedBy(AbsAtMostLimit)

\* C5 as amended: a specifier that parses as an integer o is taken as a day
\* offset (current date-time + o days, which is the resolved date whenever
\* datetime can represent it) if and only if o <= 1,000,000: only integers
\* above 1,000,000 are handed to the free-form parser, negative ones never,
\* whatever their size.
C5_OffsetIffAtMostLimit == IntegersResolvedBy(AtMostLimit)

\* a run given "1000000" and "1000001": the first was added to the clock as an
\* offset, the second went to the parser
C5_Witness ==
    /\ Len(routes) = 2
    /\ runtimeArgs.dates[1] = IntSpecifier(OffsetLimit, ParseError)
    /\ runtimeArgs.dates[2] = IntSpecifier(OffsetLimit + 1, ParseError)
    /\ routes = <<"offset", "parser">>
    /\ dates = <<AddDays(todayDefault, OffsetLimit)>>

\* C7: with several dates the entries are processed strictly in input order
\* and at most one editor runs at any time: while the editor of one date runs,
\* main waits at that date, so nothing of a later date (year directory, stamp,
\* editor) has been touched or started.
C7_OneEditorAtATimeInOrder ==
    /\ Cardinality(editors) <= 1
    /\ \A e \in editors : pc = "wait" /\ e.i = idx
    /\ \A k \in 1..Len(launched) : launched[k].i <= idx
    /\ \A k \in 1..Len(stampLog) : stampLog[k].i <= idx
    /\ \A k \in 1..(Len(launched) - 1) : launched[k].i < launched[k + 1].i

\* the editor of the second date runs, after that of the first has exited
C7_Witness ==
    /\ Len(launched) = 2
    /\ launched[1].i = 1 /\ launched[2].i = 2
    /\ editors = {EditorOf(2)}
    /\ Len(stampLog) = 2

\* the dates among the first n whose entry existed when the run started
ExistingAmong(n) == {i \in 1..n : Exists(fs0, EntryPath(dates[i]))}

\* the dates an editor has been started for
LaunchedDates == {launched[k].i : k \in 1..Len(launched)}

\* C8: a missing entry in read mode is not fatal.  At every point of a run in
\* read mode the editor has been started, in input order, for exactly the
\* existing entries among the dates gone through so far, whatever missing
\* ones stand before or between them; and the run exits only after it has
\* gone through every date, with status 0.
C8_MissingEntryIsNotFatal ==
    (readmode /\ pc \in {"open", "wait", "exited"})
        => /\ LaunchedDates
                = ExistingAmong(IF pc = "wait" THEN idx ELSE idx - 1)
           /\ \A k \in 1..(Len(launched) - 1) : launched[k].i < launched[k + 1].i
           /\ pc = "exited" => exitCode = <<0>> /\ idx = Len(dates) + 1

\* a run of two dates has exited with status 0: the entry of the first was
\* missing and reported, the editor was started for the second
C8_Witness ==
    /\ readmode /\ pc = "exited" /\ exitCode = <<0>>
    /\ Len(dates) = 2
    /\ ~Exists(fs0, EntryPath(dates[1]))
    /\ Exists(fs0, EntryPath(dates[2]))
    /\ stderr = <<NotExistMessage(EntryPath(dates[1]))>>
    /\ LaunchedDates = {2}

\* a specifier the run has come to was handed to the parser, which found no
\* date in it
HitUnparseable ==
    \E i \in 1..Len(routes) :
        routes[i] = "parser" /\ runtimeArgs.dates[i].parse = ParseError

\* C9: if a date specifier is unparseable the parse error ends the run (with
\* a traceback and status 1), and no date of the invocation is processed,
\* those after it included: no directory or file is made or changed, no
\* timestamp written, no editor started.
C9_ParseErrorAbortsRun ==
    HitUnparseable
        => /\ pc = "exited" /\ exitCode = <<1>>
           /\ fs = fs0
           /\ stampLog = <<>>
           /\ launched = <<>> /\ editors = {}

\* a run given "0" and an unparseable text, with today's entry on disk, has
\* ended in the parse error
C9_Witness ==
    /\ runtimeArgs.dates = <<SpecifierZero, TextSpecifier(ParseError)>>
    /\ Exists(fs0, EntryPath(todayDefault))
    /\ routes = <<"offset", "parser">>
    /\ pc = "exited"
    /\ stderr = <<<<"Traceback", "ParseError">>>>

\* the stamp blocks writeTimestamp can write of one datetime: its time line,
\* after its date line or not, after a newline or not, with a closing empty
\* line or not
StampBlocksOf(dt) ==
    { Times(nl, <<NL>>) \o Times(date, FormatDate(dt) \o <<NL>>)
          \o FormatTime(dt) \o <<NL>> \o Times(blank, <<NL>>) :
        nl \in BOOLEAN, date \in BOOLEAN, blank \in BOOLEAN }

\* C10: every stamp block openEntry causes to be written in one invocation is
\* of one and the same datetime, the one captured at start, before the first
\* entry is processed: not of the clock as it stands after earlier editor
\* sessions, and not of the resolved date of the entry.
C10_StampsUseCapturedDatetime ==
    /\ todayDefault \in StartTimes
    /\ \A k \in 1..Len(stampLog) :
          Appended(stampLog[k]) \in StampBlocksOf(todayDefault)

\* a second entry has been stamped, after an editor session during which the
\* clock moved on: its name is of another day than the date line written
C10_Witness ==
    /\ Len(stampLog) = 2
    /\ stampLog[2].at # todayDefault
    /\ stampLog[2].path # EntryPath(todayDefault)
    /\ DateLinesOf(stampLog[2], todayDefault) = 1
    /\ FormatTime(stampLog[2].at) # FormatTime(todayDefault)

===========================================================================
